---------------------------- MODULE Spec2Model ----------------------------
(***************************************************************************)
(* A model of the A/B test sample size calculator (src/app.py).            *)
(*                                                                         *)
(* The program is a Streamlit script: every widget change, form submit or  *)
(* button press re-runs the script against st.session_state.  The model    *)
(* has one action per such event, and two pure operators for the engine    *)
(* (calculate_sample_size, calculate_power_for_sample_size).               *)
(*                                                                         *)
(* Numbers.  The program computes in IEEE doubles; the model computes in   *)
(* fixed point over the integers:                                          *)
(*   - probabilities, rates, relative effects, power and significance are  *)
(*     held in millionths (One = 1.0);                                     *)
(*   - z-values and square roots are held in millionths as well;           *)
(*   - products that do not fit the checker's integers go through MulDiv,  *)
(*     which computes floor(a*b/c) exactly.                                *)
(* scipy's norm.ppf and norm.cdf are modelled by NormTable, a table of     *)
(* (probability, quantile) pairs: ppf is a lookup, cdf is the largest      *)
(* tabulated probability whose quantile is not above the argument.         *)
(***************************************************************************)
EXTENDS Integers, Sequences, FiniteSets, TLC

VARIABLES
    main,           \* tab1 widget values (st.session_state main_* keys)
    tab1,           \* what the last script run rendered in the Calculator tab
    scenarios,      \* st.session_state.scenarios
    chat_messages,  \* st.session_state.chat_messages
    args,           \* engine harness: the arguments of the current engine call
    sample,         \* engine harness: calculate_sample_size(args)
    prev,           \* engine harness: the previous call, <<>> or <<[args, sample]>>
    pw,             \* engine harness: <<>> or <<[n, power]>>, the last power call
    calls           \* concurrent callers: each caller's frame of engine locals

vars == <<main, tab1, scenarios, chat_messages, args, sample, prev, pw, calls>>
uiVars == <<main, tab1, scenarios, chat_messages>>
engineVars == <<args, sample, prev, pw, calls>>

-----------------------------------------------------------------------------
(* Fixed-point arithmetic *)

\* 1.0 in millionths
One == 1000 * 1000

Min(a, b) == IF a <= b THEN a ELSE b

Max(a, b) == IF a >= b THEN a ELSE b

Abs(a) == IF a < 0 THEN -a ELSE a

\* Python's None and a present value
None == <<>>

Some(x) == <<x>>

\* <<q, r>> with a*b = q*c + r and 0 <= r < c, for a, b >= 0 and 0 < c <= 10^8:
\* long multiplication of a by the octal digits of b, reduced modulo c at each
\* digit, so that no intermediate value exceeds 16*c or q.
RECURSIVE MulDivDigits(_, _, _, _)
MulDivDigits(ah, al, b, c) ==
    IF b = 0 THEN <<0, 0>>
    ELSE LET h == MulDivDigits(ah, al, b \div 8, c)
             d == b % 8
             rs == 8 * h[2] + d * al
         IN <<8 * h[1] + d * ah + (rs \div c), rs % c>>

MulDivQR(a, b, c) ==
    IF a = 0 \/ b = 0 THEN <<0, 0>> ELSE MulDivDigits(a \div c, a % c, b, c)

\* floor(a*b/c)
MulDiv(a, b, c) == MulDivQR(a, b, c)[1]

\* ceil(a*b/c): np.ceil of the quotient
MulDivCeil(a, b, c) ==
    LET qr == MulDivQR(a, b, c) IN IF qr[2] = 0 THEN qr[1] ELSE qr[1] + 1

\* Newton's iteration for floor(sqrt(x*c)) from a start r at or above it
RECURSIVE SqrtNewton(_, _, _)
SqrtNewton(x, c, r) ==
    LET next == (r + MulDiv(x, c, r)) \div 2
    IN IF next >= r THEN r ELSE SqrtNewton(x, c, next)

\* floor(sqrt(x*c)), for rootc a power of two at or above sqrt(c): the start is
\* rootc times the least power of two whose square exceeds x
SqrtScaled(x, c, rootc) ==
    IF x = 0 THEN 0
    ELSE LET g == CHOOSE k \in 0..16 :
                    /\ 2^k > x \div 2^k
                    /\ \A j \in 0..(k - 1) : 2^j <= x \div 2^j
         IN SqrtNewton(x, c, rootc * 2^g)

\* np.sqrt of a variance v held in 10^-9: the root in millionths,
\* floor(sqrt(v * 1000))
SqrtVar(v) == SqrtScaled(v, 1000, 32)

\* np.sqrt of a count n <= 10^9: the root in thousandths, floor(sqrt(n * 10^6))
SqrtCount(n) == SqrtScaled(n, One, 1024)

\* p*(1-p) in 10^-9, for p in millionths
Bernoulli(p) == MulDiv(p, One - p, 1000)

-----------------------------------------------------------------------------
(* scipy.stats.norm *)

\* <<probability, quantile>>, both in millionths, sorted; the last entry is
\* where the double-precision cdf rounds to exactly 1.0
NormTable ==
    << <<1, -4753424>>, <<10, -4264891>>, <<100, -3719016>>, <<1000, -3090232>>,
       <<5000, -2575829>>, <<10000, -2326348>>, <<19000, -2074855>>, <<20000, -2053749>>,
       <<25000, -1959964>>, <<50000, -1644854>>, <<100000, -1281552>>, <<150000, -1036433>>,
       <<200000, -841621>>, <<250000, -674490>>, <<300000, -524401>>, <<350000, -385320>>,
       <<400000, -253347>>, <<450000, -125661>>, <<499000, -2507>>, <<500000, 0>>,
       <<550000, 125661>>, <<600000, 253347>>, <<650000, 385320>>, <<700000, 524401>>,
       <<750000, 674490>>, <<799000, 838055>>, <<800000, 841621>>, <<850000, 1036433>>,
       <<899000, 1275874>>, <<900000, 1281552>>, <<950000, 1644854>>, <<975000, 1959964>>,
       <<989000, 2290368>>, <<990000, 2326348>>, <<995000, 2575829>>, <<998000, 2878162>>,
       <<999000, 3090232>>, <<999500, 3290527>>, <<999900, 3719016>>, <<999990, 4264891>>,
       <<999999, 4753424>>, <<1000000, 8292400>> >>

\* stats.norm.ppf(p): the quantile of a tabulated probability
NormPpf(p) ==
    NormTable[CHOOSE i \in 1..Len(NormTable) : NormTable[i][1] = p][2]

\* stats.norm.cdf(z): the largest tabulated probability reached at z, 0 below
\* the table
RECURSIVE CdfSearch(_, _)
CdfSearch(z, i) ==
    IF i = 0 THEN 0
    ELSE IF NormTable[i][2] <= z THEN NormTable[i][1]
    ELSE CdfSearch(z, i - 1)

NormCdf(z) == CdfSearch(z, Len(NormTable))

-----------------------------------------------------------------------------
(* The engine: src/app.py lines 47-112 *)

\* the literal 0.9999 of lines 65 and 94
ClampP2 == 999900

\* the literal 0.9999 of line 112
MaxPower == 999900

\* line 62 / line 91: baseline_rate * (1 + mde)
VariantRate(baseline_rate, mde) == MulDiv(baseline_rate, One + mde, One)

\* lines 64-65: if p2 > 1: p2 = min(p2, 0.9999)
SampleClamp(p2) == IF p2 > One THEN Min(p2, ClampP2) ELSE p2

\* lines 93-94: if p2 > 1: p2 = 0.9999
PowerClamp(p2) == IF p2 > One THEN ClampP2 ELSE p2

\* lines 69-72 / 98-101: the critical value for the tail mode
ZAlpha(significance, two_tailed) ==
    IF two_tailed THEN NormPpf(One - significance \div 2)
    ELSE NormPpf(One - significance)

\* the result of calculate_sample_size: float('inf') or an int
Infinity == [inf |-> TRUE, n |-> 0]

Finite(n) == [inf |-> FALSE, n |-> n]

\* lines 76-77 before squaring, in 10^-8:
\*   z_alpha * sqrt(2 * p_pooled * (1 - p_pooled)) + z_beta * sqrt(p1*(1-p1) + p2*(1-p2))
\* with 2 * p_pooled = p1 + p2 (line 67)
NumeratorRoot(p1, p2, z_alpha, z_beta) ==
    LET pooled2 == p1 + p2
        sd_pooled == SqrtVar(MulDiv(pooled2, 2 * One - pooled2, 2000))
        sd_unpooled == SqrtVar(Bernoulli(p1) + Bernoulli(p2))
        term(z, sd) == IF z >= 0 THEN MulDiv(z, sd, 10000)
                       ELSE -MulDiv(-z, sd, 10000)
    IN term(z_alpha, sd_pooled) + term(z_beta, sd_unpooled)

\* lines 78-85 without the sentinel of lines 80-81: a zero denominator yields 0
SampleSizeResultNoSentinel(root, diff) ==
    IF diff = 0 \/ root = 0 THEN Finite(0)
    ELSE LET q == MulDiv(Abs(root), 10000, 100 * Abs(diff))
         IN Finite(Max(1, MulDivCeil(q, q, 100 * One)))

\* lines 78-85: denominator = (p2 - p1) ** 2; the zero test; ceil(numerator / denominator).
\* root is the numerator's root in 10^-8, diff is p2 - p1 in millionths (its square
\* is 0 exactly when it is): numerator / denominator = (root / (100 * diff))^2, taken
\* through the quotient in 10^-4.  A numerator that is not 0 gives a quotient above 0,
\* whose ceiling is at least 1 also where it is below the quotient's resolution.
SampleSizeResult(root, diff) ==
    IF diff = 0 THEN Infinity
    ELSE IF root = 0 THEN Finite(0)
    ELSE LET q == MulDiv(Abs(root), 10000, 100 * Abs(diff))
         IN Finite(Max(1, MulDivCeil(q, q, 100 * One)))

\* lines 61-65: the variant probability calculate_sample_size computes with
SampleP2(baseline_rate, mde) == SampleClamp(VariantRate(baseline_rate, mde))

\* lines 90-94: the variant probability calculate_power_for_sample_size computes with
PowerP2(baseline_rate, mde) == PowerClamp(VariantRate(baseline_rate, mde))

\* lines 47-85
calculate_sample_size(baseline_rate, mde, power, significance, two_tailed) ==
    LET p1 == baseline_rate
        p2 == SampleP2(baseline_rate, mde)
        z_alpha == ZAlpha(significance, two_tailed)
        z_beta == NormPpf(power)
    IN SampleSizeResult(NumeratorRoot(p1, p2, z_alpha, z_beta), p2 - p1)

\* the result of calculate_power_for_sample_size: a power in millionths, or the
\* ZeroDivisionError that line 104 raises for n = 0
PowerValue(p) == [raised |-> FALSE, power |-> p]

ZeroDivisionError == [raised |-> TRUE, power |-> 0]

\* line 112 without the cap
PowerUncapped(power) == power

\* line 112: min(power, 0.9999)
PowerCap(power) == Min(power, MaxPower)

\* lines 103-112: effect = abs(p2 - p1); se = sqrt(p1*(1-p1)/n + p2*(1-p2)/n);
\* 1.0 if se == 0; else cdf(effect / se - z_alpha), capped.
\* se = sd / sqrt(n) with sd = sqrt(p1*(1-p1) + p2*(1-p2)), so se == 0 exactly when
\* sd is, and effect / se = effect * sqrt(n) / sd.
PowerResult(p1, p2, n, z_alpha) ==
    LET effect == Abs(p2 - p1)
        sd == SqrtVar(Bernoulli(p1) + Bernoulli(p2))
    IN IF n = 0 THEN ZeroDivisionError
       ELSE IF sd = 0 THEN PowerValue(One)
       ELSE LET z_effect == MulDiv(1000 * effect, SqrtCount(n), sd)
            IN PowerValue(PowerCap(NormCdf(z_effect - z_alpha)))

\* lines 88-112
calculate_power_for_sample_size(baseline_rate, mde, n, significance, two_tailed) ==
    LET p1 == baseline_rate
        p2 == PowerP2(baseline_rate, mde)
    IN PowerResult(p1, p2, n, ZAlpha(significance, two_tailed))

-----------------------------------------------------------------------------
(* The Streamlit script: src/app.py lines 115-119 and 151-620 *)

\* widget values are held in tenths of a percent (the widgets' step); x / 100
\* (lines 221-224, 461-468) turns them into a fraction, held in millionths
Percent(x) == x * 1000

\* line 220 / line 460
IsTwoTailed(test_type) == test_type = "Two-tailed"

\* the arguments of one engine call
EngineArgs(baseline_rate, mde, power, significance, two_tailed) ==
    [baseline_rate |-> baseline_rate, mde |-> mde, power |-> power,
     significance |-> significance, two_tailed |-> two_tailed]

SampleSizeOf(a) ==
    calculate_sample_size(a.baseline_rate, a.mde, a.power, a.significance, a.two_tailed)

PowerOf(a, n) ==
    calculate_power_for_sample_size(a.baseline_rate, a.mde, n, a.significance, a.two_tailed)

\* total / traffic rounded down in place of np.ceil
FloorDiv(total, traffic) == total \div traffic

\* np.ceil(total / traffic) for traffic > 0
CeilDiv(total, traffic) == (total + traffic - 1) \div traffic

\* lines 226-228: expected_variant_rate > 1
Tab1Rejects(baseline_decimal, mde_decimal) ==
    VariantRate(baseline_decimal, mde_decimal) > One

\* lines 260-261: days_needed, computed only under daily_traffic > 0
Tab1Days(total_sample_size, daily_traffic) ==
    IF daily_traffic > 0 THEN Some(CeilDiv(total_sample_size, daily_traffic)) ELSE None

\* lines 383-387: export_data["duration_estimate"], set only under daily_traffic > 0
ExportDuration(daily_traffic, days_needed) ==
    IF daily_traffic > 0
    THEN Some([daily_traffic |-> daily_traffic, estimated_days |-> days_needed[1]])
    ELSE None

\* lines 220-394: what one run of the script renders in the Calculator tab.
\* status "error" is the st.error branch; "raised" is the OverflowError of line 289
\* on an infinite sample size.
RenderTab1(m) ==
    LET a == EngineArgs(Percent(m.baseline), Percent(m.mde), Percent(m.power),
                        Percent(m.significance), IsTwoTailed(m.test_type))
        sample_size_per_variant == SampleSizeOf(a)
        total_sample_size == 2 * sample_size_per_variant.n
        days_needed == Tab1Days(total_sample_size, m.traffic)
        blank == [status |-> "error", engine_call |-> None,
                  sample_size_per_variant |-> None, total_sample_size |-> None,
                  days_needed |-> None, export |-> None]
    IN IF Tab1Rejects(a.baseline_rate, a.mde) THEN blank
       ELSE IF sample_size_per_variant.inf
       THEN [blank EXCEPT !.status = "raised", !.engine_call = Some(a)]
       ELSE [status |-> "result",
             engine_call |-> Some(a),
             sample_size_per_variant |-> Some(sample_size_per_variant.n),
             total_sample_size |-> Some(total_sample_size),
             days_needed |-> days_needed,
             export |-> Some([sample_size_per_variant |-> sample_size_per_variant.n,
                              total_sample_size |-> total_sample_size,
                              duration_estimate |->
                                  ExportDuration(m.traffic, days_needed)])]

\* line 472 with the divisor raised to 1 in place of the guard
ScenarioDaysAlways(sample_size, scenario_traffic) ==
    Some(CeilDiv(sample_size * 2, Max(scenario_traffic, 1)))

\* line 472: days = np.ceil((sample_size * 2) / scenario_traffic) if scenario_traffic > 0 else None
ScenarioDays(sample_size, scenario_traffic) ==
    IF scenario_traffic > 0 THEN Some(CeilDiv(sample_size * 2, scenario_traffic)) ELSE None

\* line 484: int(days) if days else None   (None and 0.0 are both falsy)
ScenarioEstimatedDays(days) ==
    IF days # None /\ days[1] # 0 THEN Some(days[1]) ELSE None

\* lines 459-485: the dict appended on submit; the engine is called with the form's
\* values as they are
NewScenario(name, f) ==
    LET a == EngineArgs(Percent(f.baseline), Percent(f.mde), Percent(f.power),
                        Percent(f.significance), IsTwoTailed(f.test_type))
        sample_size == SampleSizeOf(a)
        days == ScenarioDays(sample_size.n, f.traffic)
    IN [name |-> name,
        baseline |-> f.baseline,
        mde |-> f.mde,
        power |-> f.power,
        significance |-> f.significance,
        test_type |-> f.test_type,
        daily_traffic |-> f.traffic,
        engine_call |-> a,
        sample_size_per_variant |-> sample_size,
        total_sample_size |-> sample_size.n * 2,
        estimated_days |-> ScenarioEstimatedDays(days)]

-----------------------------------------------------------------------------
(* Bounds and input grids *)

\* the most scenarios a session adds before clearing
MaxScenarios == 2

\* the most question/answer exchanges a session holds before clearing
MaxChat == 1

\* the callers that may be inside the engine at the same time
NumCallers == 2

\* tab1 widget values, in tenths of a percent, inside the widgets' ranges
\* (lines 160-218); the defaults are among them
MainBaselines == {50, 500, 999}
MainMdes == {100, 1000}
MainPowers == {500, 800}
MainSignificances == {50, 200}
TestTypes == {"Two-tailed", "One-tailed"}
Traffics == {0, 1000}

\* the Add Scenario form's values (lines 432-452)
FormBaselines == {50, 999}
FormMdes == {100}
FormPowers == {800}
FormSignificances == {50}
FormTestTypes == {"Two-tailed"}
Forms ==
    [baseline : FormBaselines, mde : FormMdes, power : FormPowers,
     significance : FormSignificances, test_type : FormTestTypes, traffic : Traffics]

\* questions put to the assistant: an example button's index or a typed prompt
Questions == {1}

\* engine arguments, in millionths, over the documented domain of the engine:
\* baseline_rate, power, significance in (0,1), mde > 0
BaselineRates == {50000, 500000, 999000, 999900}
Effects == {1000, 2000, 100000, 1000000}
Powers == {1000, 20000, 500000, 800000, 900000}
Significances == {50000, 200000, 500000, 600000}
SampleCounts == {1, 2, 1000, 1000000}

\* arguments of the concurrent calls, and the sample size of the power calls
CallArgs ==
    {EngineArgs(50000, 100000, 800000, 50000, TRUE),
     EngineArgs(500000, 100000, 800000, 50000, TRUE),
     EngineArgs(50000, 100000, 800000, 50000, FALSE)}
CallCounts == {1000}

-----------------------------------------------------------------------------
(* The session: Spec *)

\* the threads that may be inside the engine at once
Callers == 1..NumCallers

\* a caller outside the engine: no frame
IdleFrame ==
    [pc |-> "idle", fn |-> "none", a |-> None, n |-> 0, p2 |-> 0,
     z_alpha |-> 0, z_beta |-> 0, root |-> 0, result |-> None]

\* the widgets' default values (lines 160-218)
MainDefaults ==
    [baseline |-> 50, mde |-> 100, power |-> 800, significance |-> 50,
     test_type |-> "Two-tailed", traffic |-> 0]

DefaultArgs == EngineArgs(50000, 100000, 800000, 50000, TRUE)

EngineIdle ==
    /\ args = DefaultArgs
    /\ sample = SampleSizeOf(DefaultArgs)
    /\ prev = None
    /\ pw = None
    /\ calls = [c \in Callers |-> IdleFrame]

\* lines 115-119, and the first run of the script
Init ==
    /\ main = MainDefaults
    /\ tab1 = RenderTab1(MainDefaults)
    /\ scenarios = <<>>
    /\ chat_messages = <<>>
    /\ EngineIdle

\* a tab1 widget changes and the script runs again
SetMain(field, v) ==
    /\ main[field] # v
    /\ main' = [main EXCEPT ![field] = v]
    /\ tab1' = RenderTab1(main')
    /\ UNCHANGED <<scenarios, chat_messages, engineVars>>

SetBaseline == \E v \in MainBaselines : SetMain("baseline", v)

SetMde == \E v \in MainMdes : SetMain("mde", v)

SetPower == \E v \in MainPowers : SetMain("power", v)

SetSignificance == \E v \in MainSignificances : SetMain("significance", v)

SetTestType == \E v \in TestTypes : SetMain("test_type", v)

SetTraffic == \E v \in Traffics : SetMain("traffic", v)

\* lines 459-486 with the new scenario put in front of the list
AddScenarioInFront ==
    /\ Len(scenarios) < MaxScenarios
    /\ \E f \in Forms :
         scenarios' = <<NewScenario(Len(scenarios) + 1, f)>> \o scenarios
    /\ UNCHANGED <<main, tab1, chat_messages, engineVars>>

\* lines 459-486: "Add Scenario" is submitted; the default name is
\* "Scenario <len + 1>" (line 432), held as that number
AddScenario ==
    /\ Len(scenarios) < MaxScenarios
    /\ \E f \in Forms :
         scenarios' = Append(scenarios, NewScenario(Len(scenarios) + 1, f))
    /\ UNCHANGED <<main, tab1, chat_messages, engineVars>>

\* lines 556-559: "Clear All Scenarios", shown while the list is not empty
ClearScenarios ==
    /\ scenarios # <<>>
    /\ scenarios' = <<>>
    /\ UNCHANGED <<main, tab1, chat_messages, engineVars>>

\* lines 592-615: a question is asked (an example button while the chat is empty,
\* or the chat input); the question and the assistant's reply are appended
AskQuestion ==
    /\ Len(chat_messages) + 2 <= 2 * MaxChat
    /\ \E q \in Questions :
         chat_messages' = chat_messages \o
             << [role |-> "user", content |-> q],
                [role |-> "assistant", content |-> q] >>
    /\ UNCHANGED <<main, tab1, scenarios, engineVars>>

\* lines 617-620: "Clear Chat History", shown while the chat is not empty
ClearChat ==
    /\ chat_messages # <<>>
    /\ chat_messages' = <<>>
    /\ UNCHANGED <<main, tab1, scenarios, engineVars>>

Next ==
    \/ SetBaseline
    \/ SetMde
    \/ SetPower
    \/ SetSignificance
    \/ SetTestType
    \/ SetTraffic
    \/ AddScenario
    \/ ClearScenarios
    \/ AskQuestion
    \/ ClearChat

Spec == Init /\ [][Next]_vars

-----------------------------------------------------------------------------
(* The engine called directly: EngineSpec *)

EngineInit == Init

\* calculate_sample_size is called with one argument changed; the call before
\* it is kept for comparison
Recalculate(field, v) ==
    /\ args[field] # v
    /\ args' = [args EXCEPT ![field] = v]
    /\ sample' = SampleSizeOf(args')
    /\ prev' = Some([args |-> args, sample |-> sample])
    /\ pw' = None
    /\ UNCHANGED <<uiVars, calls>>

VaryBaselineRate == \E v \in BaselineRates : Recalculate("baseline_rate", v)

VaryMde == \E v \in Effects : Recalculate("mde", v)

VaryPower == \E v \in Powers : Recalculate("power", v)

VarySignificance == \E v \in Significances : Recalculate("significance", v)

VaryTwoTailed == \E v \in BOOLEAN : Recalculate("two_tailed", v)

\* calculate_power_for_sample_size is called with the same arguments and the
\* sample size just computed
RoundTrip ==
    /\ ~sample.inf
    /\ pw' = Some([n |-> sample.n, result |-> PowerOf(args, sample.n)])
    /\ prev' = None
    /\ UNCHANGED <<args, sample, uiVars, calls>>

\* calculate_power_for_sample_size is called with a sample size of the caller's
PowerAt ==
    /\ \E n \in SampleCounts :
         pw' = Some([n |-> n, result |-> PowerOf(args, n)])
    /\ prev' = None
    /\ UNCHANGED <<args, sample, uiVars, calls>>

EngineNext ==
    \/ VaryBaselineRate
    \/ VaryMde
    \/ VaryPower
    \/ VarySignificance
    \/ VaryTwoTailed
    \/ RoundTrip
    \/ PowerAt

EngineSpec == EngineInit /\ [][EngineNext]_vars

-----------------------------------------------------------------------------
(* The engine entered by several callers at once: ConcurrentSpec *)

ConcurrentInit == Init

\* an assignment to a local variable of the engine functions: it lands in the
\* frame of the call that makes it
StoreShared(frames, c, name, v) ==
    [k \in DOMAIN frames |-> [frames[k] EXCEPT ![name] = v]]

StoreLocal(frames, c, name, v) == [frames EXCEPT ![c][name] = v]

\* the caller moves on to the next statement
Goto(frames, c, pc) == [frames EXCEPT ![c].pc = pc]

\* every step of a call leaves the session and the harness alone
EngineTouchesNothing == UNCHANGED <<uiVars, args, sample, prev, pw>>

\* lines 47 and 88: a caller enters one of the two functions with its arguments
Enter(c) ==
    /\ calls[c].pc = "idle"
    /\ \E a \in CallArgs :
         \/ calls' = [calls EXCEPT ![c] =
                        [IdleFrame EXCEPT !.pc = "p2", !.fn = "sample", !.a = a]]
         \/ \E n \in CallCounts :
              calls' = [calls EXCEPT ![c] =
                          [IdleFrame EXCEPT !.pc = "p2", !.fn = "power", !.a = a, !.n = n]]
    /\ EngineTouchesNothing

\* lines 61-65 and 90-94: p1, p2 and the clamp
StepP2(c) ==
    /\ calls[c].pc = "p2"
    /\ LET a == calls[c].a
           p2 == IF calls[c].fn = "sample"
                 THEN SampleP2(a.baseline_rate, a.mde)
                 ELSE PowerP2(a.baseline_rate, a.mde)
       IN calls' = Goto(StoreLocal(calls, c, "p2", p2), c, "z")
    /\ EngineTouchesNothing

\* lines 69-74 and 98-101: z_alpha, and z_beta in calculate_sample_size
StepZ(c) ==
    /\ calls[c].pc = "z"
    /\ LET a == calls[c].a
           withAlpha == StoreLocal(calls, c, "z_alpha",
                                   ZAlpha(a.significance, a.two_tailed))
       IN IF calls[c].fn = "sample"
          THEN calls' = Goto(StoreLocal(withAlpha, c, "z_beta", NormPpf(a.power)),
                             c, "numerator")
          ELSE calls' = Goto(withAlpha, c, "return")
    /\ EngineTouchesNothing

\* lines 76-77: the numerator of calculate_sample_size
StepNumerator(c) ==
    /\ calls[c].pc = "numerator"
    /\ LET f == calls[c]
           root == NumeratorRoot(f.a.baseline_rate, f.p2, f.z_alpha, f.z_beta)
       IN calls' = Goto(StoreLocal(calls, c, "root", root), c, "return")
    /\ EngineTouchesNothing

\* lines 78-85 and 103-112: the value returned
StepReturn(c) ==
    /\ calls[c].pc = "return"
    /\ LET f == calls[c]
           result == IF f.fn = "sample"
                     THEN SampleSizeResult(f.root, f.p2 - f.a.baseline_rate)
                     ELSE PowerResult(f.a.baseline_rate, f.p2, f.n, f.z_alpha)
       IN calls' = Goto(StoreLocal(calls, c, "result", result), c, "done")
    /\ EngineTouchesNothing

\* the caller has taken the result; its frame is gone
Leave(c) ==
    /\ calls[c].pc = "done"
    /\ calls' = [calls EXCEPT ![c] = IdleFrame]
    /\ EngineTouchesNothing

ConcurrentNext ==
    \E c \in Callers :
        \/ Enter(c)
        \/ StepP2(c)
        \/ StepZ(c)
        \/ StepNumerator(c)
        \/ StepReturn(c)
        \/ Leave(c)

ConcurrentSpec == ConcurrentInit /\ [][ConcurrentNext]_vars

-----------------------------------------------------------------------------
(* Properties of the session and of the engine *)

\* the variant rate a scenario's stored percentages imply
ScenarioRate(s) == VariantRate(Percent(s.baseline), Percent(s.mde))

\* C1: on both paths that call the engine (the Calculator tab and the Add
\* Scenario form) an input with baseline_rate * (1 + relative_effect) > 1 is
\* rejected before the engine is called: the Calculator tab shows no result and
\* made no engine call for it, and no scenario is stored for it.
InvalidEffectRangeRejected ==
    /\ Tab1Rejects(Percent(main.baseline), Percent(main.mde))
         => /\ tab1.status = "error"
            /\ tab1.engine_call = None
            /\ tab1.sample_size_per_variant = None
    /\ \A i \in 1..Len(scenarios) : ScenarioRate(scenarios[i]) <= One

\* C2: the variant probability both engine functions use in their variance
\* terms lies in (0, 0.9999], for every baseline rate in (0,1) and every
\* relative effect above 0.
VariantProbabilityClamped ==
    /\ 0 < SampleP2(args.baseline_rate, args.mde)
    /\ SampleP2(args.baseline_rate, args.mde) <= ClampP2
    /\ 0 < PowerP2(args.baseline_rate, args.mde)
    /\ PowerP2(args.baseline_rate, args.mde) <= ClampP2

\* C3: whenever p2 differs from p1, calculate_sample_size returns a positive
\* integer: at least 1, never 0 and never negative.
SampleSizePositive ==
    SampleP2(args.baseline_rate, args.mde) # args.baseline_rate
        => /\ ~sample.inf
           /\ sample.n >= 1

IsRoundTrip == pw # None /\ ~sample.inf /\ pw[1].n = sample.n

\* C5: feeding a finite result n (the power function's domain, n >= 1) back into
\* calculate_power_for_sample_size with the same arguments yields at least the
\* requested power less a tolerance of 0.001.
RoundTripAchievesPower ==
    (IsRoundTrip /\ sample.n >= 1)
        => /\ ~pw[1].result.raised
           /\ pw[1].result.power >= args.power - 1000

\* a <= b on sample-size results, the sentinel being the largest
SampleLeq(a, b) == b.inf \/ (~a.inf /\ a.n <= b.n)

\* the last two calls of calculate_sample_size differ in the named argument only
OnlyDiffers(field) ==
    /\ prev # None
    /\ prev[1].args[field] # args[field]
    /\ [prev[1].args EXCEPT ![field] = args[field]] = args

\* C6: for the same other inputs the one-tailed sample size is at most the
\* two-tailed one.
TailConsistency ==
    OnlyDiffers("two_tailed")
        => IF args.two_tailed
           THEN SampleLeq(prev[1].sample, sample)
           ELSE SampleLeq(sample, prev[1].sample)

\* C7: for the same other inputs a lower requested power never needs a larger
\* sample size than a higher one.
MonotoneInPower ==
    OnlyDiffers("power")
        => IF prev[1].args.power < args.power
           THEN SampleLeq(prev[1].sample, sample)
           ELSE SampleLeq(sample, prev[1].sample)

\* C8: for the same other inputs a larger relative effect never needs a larger
\* sample size than a smaller one, the clamp boundary included.
MonotoneInEffect ==
    OnlyDiffers("mde")
        => IF prev[1].args.mde < args.mde
           THEN SampleLeq(sample, prev[1].sample)
           ELSE SampleLeq(prev[1].sample, sample)

\* the unpooled variance of line 104, zero exactly when the standard error is
PowerVariance(a) ==
    Bernoulli(a.baseline_rate) + Bernoulli(PowerP2(a.baseline_rate, a.mde))

\* C9: for a sample size n >= 1 calculate_power_for_sample_size returns a value
\* in [0, 0.9999], or exactly 1 where the standard error is exactly 0.
PowerWithinCap ==
    (pw # None /\ pw[1].n >= 1)
        => /\ ~pw[1].result.raised
           /\ \/ /\ 0 <= pw[1].result.power
                 /\ pw[1].result.power <= MaxPower
              \/ /\ pw[1].result.power = One
                 /\ PowerVariance(args) = 0

\* a call whose normal cdf value lies above the cap has returned the cap
PowerCapReached ==
    /\ pw # None
    /\ pw[1].n >= 1
    /\ pw[1].result.power = MaxPower
    /\ PowerVariance(args) # 0

\* C10: with daily traffic 0 no duration is estimated: the Calculator tab has no
\* days_needed and its export no duration_estimate, a stored scenario's
\* estimated_days is None; the sample sizes are produced all the same.
ZeroTrafficSkipsDuration ==
    /\ (main.traffic = 0 /\ ~Tab1Rejects(Percent(main.baseline), Percent(main.mde)))
         => /\ tab1.status = "result"
            /\ tab1.sample_size_per_variant # None
            /\ tab1.total_sample_size = Some(2 * tab1.sample_size_per_variant[1])
            /\ tab1.days_needed = None
            /\ tab1.export[1].duration_estimate = None
    /\ \A i \in 1..Len(scenarios) :
         scenarios[i].daily_traffic = 0
           => /\ scenarios[i].estimated_days = None
              /\ ~scenarios[i].sample_size_per_variant.inf
              /\ scenarios[i].total_sample_size
                   = 2 * scenarios[i].sample_size_per_variant.n

\* both paths have produced a result with daily traffic 0
ZeroTrafficReached ==
    /\ main.traffic = 0
    /\ main # MainDefaults
    /\ tab1.status = "result"
    /\ \E i \in 1..Len(scenarios) : scenarios[i].daily_traffic = 0

\* d is the ceiling of total / traffic: the least number of days whose traffic
\* covers the total
IsCeilOf(d, total, traffic) ==
    /\ d * traffic >= total
    /\ (d - 1) * traffic < total

\* C11: for a finite per-variant sample size n and daily traffic above 0 the
\* total is exactly 2 * n and the estimated days are ceil(2 * n / daily_traffic),
\* the same in the Calculator tab, in its export and in a stored scenario.
TotalAndDaysExact ==
    /\ (tab1.status = "result" /\ main.traffic > 0)
         => /\ tab1.total_sample_size = Some(2 * tab1.sample_size_per_variant[1])
            /\ tab1.export[1].total_sample_size = 2 * tab1.sample_size_per_variant[1]
            /\ tab1.days_needed # None
            /\ IsCeilOf(tab1.days_needed[1], tab1.total_sample_size[1], main.traffic)
            /\ tab1.export[1].duration_estimate # None
            /\ tab1.export[1].duration_estimate[1].daily_traffic = main.traffic
            /\ tab1.export[1].duration_estimate[1].estimated_days = tab1.days_needed[1]
    /\ \A i \in 1..Len(scenarios) :
         (scenarios[i].daily_traffic > 0 /\ ~scenarios[i].sample_size_per_variant.inf)
           => /\ scenarios[i].total_sample_size
                   = 2 * scenarios[i].sample_size_per_variant.n
              /\ scenarios[i].estimated_days # None
              /\ IsCeilOf(scenarios[i].estimated_days[1],
                          scenarios[i].total_sample_size,
                          scenarios[i].daily_traffic)

\* both paths have estimated a duration that is not a whole number of days
\* before rounding
DaysRoundedUpReached ==
    /\ tab1.status = "result"
    /\ main.traffic > 0
    /\ tab1.total_sample_size[1] % main.traffic # 0
    /\ \E i \in 1..Len(scenarios) :
         /\ scenarios[i].daily_traffic > 0
         /\ scenarios[i].total_sample_size % scenarios[i].daily_traffic # 0

\* the form values a stored scenario echoes (lines 474-481)
FormOf(s) ==
    [baseline |-> s.baseline, mde |-> s.mde, power |-> s.power,
     significance |-> s.significance, test_type |-> s.test_type,
     traffic |-> s.daily_traffic]

\* C12: the scenario store is append-only and cleared on demand: every step
\* leaves the list as it is, or puts one submitted scenario after the entries
\* already there, which stay unaltered and in order, or empties a list that is
\* not empty.
ScenarioStoreAppendOnly ==
    [][ \/ scenarios' = scenarios
        \/ /\ Len(scenarios') = Len(scenarios) + 1
           /\ SubSeq(scenarios', 1, Len(scenarios)) = scenarios
           /\ FormOf(scenarios'[Len(scenarios')]) \in Forms
           /\ scenarios'[Len(scenarios')].name = Len(scenarios) + 1
        \/ /\ scenarios # <<>>
           /\ scenarios' = <<>> ]_vars

\* two different scenarios are stored, in the order they were submitted
TwoScenariosStored ==
    /\ Len(scenarios) >= 2
    /\ scenarios[1].name = 1
    /\ scenarios[2].name = 2
    /\ FormOf(scenarios[1]) # FormOf(scenarios[2])

\* what the function a frame is in returns for the frame's arguments when it
\* runs alone
ResultAlone(f) == IF f.fn = "sample" THEN SampleSizeOf(f.a) ELSE PowerOf(f.a, f.n)

\* C13: the engine functions share no mutable state: under every interleaving
\* of concurrent calls each finished call holds the result its own arguments
\* give when the function runs alone, and no step of a call changes the session
\* state (widget values, rendered tab, scenario list, chat history).
EngineCallsIndependent ==
    [][ /\ UNCHANGED uiVars
        /\ \A c \in Callers :
             calls'[c].pc = "done" => calls'[c].result = ResultAlone(calls'[c]) ]_vars

\* a call has finished while another call of the same function, with other
\* arguments, is between its statements
InterleavedCallsReached ==
    \E c, d \in Callers :
        /\ c # d
        /\ calls[c].pc = "done"
        /\ calls[d].pc \in {"z", "numerator", "return"}
        /\ calls[c].fn = calls[d].fn
        /\ calls[c].a # calls[d].a

=============================================================================
